---------------------------- MODULE Spec2Model ----------------------------
(***************************************************************************)
(* Route synthesis engine of Project-Profile-Finder: ingestion of the road *)
(* graph, the spatial index and its point-to-segment projector, the        *)
(* elevation Profile and the AreaMatcher, and the beam search find_route.  *)
(*                                                                         *)
(* f64 values are modelled as exact rationals <<n, d>> in lowest terms     *)
(* with d > 0; <<1, 0>> stands for +infinity (f64::INFINITY and the        *)
(* f64::MAX sentinel of the matcher).  Rounding is abstracted away.        *)
(* Handles (NodeIndex, EdgeIndex) are 0-based as in petgraph; sequences    *)
(* are 1-based, so the element of handle h is at position h + 1.           *)
(***************************************************************************)
EXTENDS Integers, Sequences, FiniteSets, TLC

(***************************************************************************)
(* Exact arithmetic standing for f64                                       *)
(***************************************************************************)
\* Rust evaluates an operand once and then uses its value: Let(v, F) is F
\* applied to the value of v (`let x = v;` followed by the body F)
Let(v, F(_)) == CHOOSE r \in { F(x) : x \in {v} } : TRUE
Let2(v, w, F(_, _)) == CHOOSE r \in { F(x, y) : x \in {v}, y \in {w} } : TRUE
Let3(u, v, w, F(_, _, _)) == CHOOSE r \in { F(x, y, z) : x \in {u}, y \in {v}, z \in {w} } : TRUE

\* The arithmetic below binds its operands in the same way, written out as
\* CHOOSE r \in { body : x \in {a} } : TRUE.
IAbs(n) == IF n < 0 THEN -n ELSE n

RECURSIVE GCD(_, _)
GCD(a, b) == CHOOSE g \in { IF y = 0 THEN x ELSE GCD(y, x % y) : x \in {a}, y \in {b} } : TRUE

\* n / d with the common factor g divided out and the sign on the numerator
Reduced(n, d, g) == IF d < 0 THEN <<(-n) \div g, (-d) \div g>> ELSE <<n \div g, d \div g>>
Norm(n, d) == CHOOSE r \in { Reduced(x, y, GCD(IAbs(x), IAbs(y))) : x \in {n}, y \in {d} } : TRUE

R(n) == <<n, 1>>
Q(n, d) == Norm(n, d)
INF == <<1, 0>>

\* the operands are reduced by common factors before multiplying
DenGCD(a, b) == IF a[2] = 0 /\ b[2] = 0 THEN 1 ELSE GCD(a[2], b[2])
AddOver(a, b, g) ==
    CHOOSE r \in { Norm(a[1] * (b[2] \div h) + b[1] * (a[2] \div h), (a[2] \div h) * b[2]) :
                   h \in {g} } : TRUE
RAdd(a, b) == CHOOSE r \in { AddOver(x, y, DenGCD(x, y)) : x \in {a}, y \in {b} } : TRUE
RNeg(a) == CHOOSE r \in { <<-x[1], x[2]>> : x \in {a} } : TRUE
RSub(a, b) == RAdd(a, RNeg(b))
MulReduced(x, y) == CHOOSE r \in { Norm(u[1] * v[1], u[2] * v[2]) : u \in {x}, v \in {y} } : TRUE
RMul(a, b) ==
    CHOOSE r \in { MulReduced(Norm(x[1], y[2]), Norm(y[1], x[2])) : x \in {a}, y \in {b} } : TRUE
RDiv(a, b) ==
    CHOOSE r \in { RMul(a, IF y[1] < 0 THEN <<-y[2], -y[1]>> ELSE <<y[2], y[1]>>) :
                   y \in {b} } : TRUE
LtOver(a, b, g) == \E h \in {g} : a[1] * (b[2] \div h) < b[1] * (a[2] \div h)
RLt(a, b) == \E x \in {a}, y \in {b} : LtOver(x, y, DenGCD(x, y))
RLe(a, b) == ~RLt(b, a)
RAbs(a) == CHOOSE r \in { <<IAbs(x[1]), x[2]>> : x \in {a} } : TRUE
RMax(a, b) == CHOOSE r \in { IF RLt(x, y) THEN y ELSE x : x \in {a}, y \in {b} } : TRUE
RMin(a, b) == CHOOSE r \in { IF RLt(y, x) THEN y ELSE x : x \in {a}, y \in {b} } : TRUE
RSq(a) == CHOOSE r \in { RMul(x, x) : x \in {a} } : TRUE
\* f64::signum: 1.0 for positive values and +0.0, -1.0 for negative values
Signum(a) == IF a[1] < 0 THEN -1 ELSE 1
IsFinite(a) == a[2] # 0
\* `x as usize` for a non-negative x: truncation toward zero
AsUsize(a) == IF a[1] <= 0 THEN 0 ELSE a[1] \div a[2]

Zero == R(0)
One == R(1)

(***************************************************************************)
(* Option<T>                                                               *)
(***************************************************************************)
None == [some |-> FALSE]
Some(x) == [some |-> TRUE, val |-> x]

(***************************************************************************)
(* domain/models.rs: Profile                                               *)
(* A Profile is its `points`: a sequence of <<cum_dist, rel_elev>>.        *)
(***************************************************************************)
\* Vec::insert(0, x)
InsertFront(x, s) == <<x>> \o s

\* slice::sort_by with the comparator a.0.partial_cmp(&b.0): a stable sort
RECURSIVE InsertByDist(_, _)
InsertByDist(p, sorted) ==
    Let(sorted, LAMBDA rest :
        IF rest = <<>> THEN <<p>>
        ELSE IF RLt(p[1], Head(rest)[1]) THEN <<p>> \o rest
        ELSE <<Head(rest)>> \o InsertByDist(p, Tail(rest)))

RECURSIVE SortByDist(_)
SortByDist(points) ==
    Let(points, LAMBDA ps :
        IF ps = <<>> THEN <<>>
        ELSE InsertByDist(ps[Len(ps)], SortByDist(SubSeq(ps, 1, Len(ps) - 1))))

ProfileNew(points) ==
    LET withOrigin ==
            IF points = <<>> \/ points[1][1] # Zero \/ points[1][2] # Zero
            THEN InsertFront(<<Zero, Zero>>, points)
            ELSE points
    IN  SortByDist(withOrigin)

total_length(profile) ==
    IF profile = <<>> THEN Zero ELSE profile[Len(profile)][1]

\* faulty variant, for mutation analysis: the elevation of curr instead of the interpolation
LerpToCurr(prev, curr, s) == curr[2]

\* prev.1 + t * (curr.1 - prev.1) for t = (s - prev.0) / (curr.0 - prev.0)
Lerp(prev, curr, s) ==
    RAdd(prev[2], RMul(RDiv(RSub(s, prev[1]), RSub(curr[1], prev[1])),
                       RSub(curr[2], prev[2])))

\* the loop of interpolate over points[1..]: i is the position of `curr`
RECURSIVE InterpolateFrom(_, _, _)
InterpolateFrom(profile, s, i) ==
    Let(i, LAMBDA k :
        IF k > Len(profile) THEN profile[k - 1][2]
        ELSE IF RLe(s, profile[k][1]) THEN Lerp(profile[k - 1], profile[k], s)
        ELSE InterpolateFrom(profile, s, k + 1))

interpolate(profile, s) ==
    Let2(profile, s, LAMBDA points, x :
        IF RLe(x, Zero) THEN Zero ELSE InterpolateFrom(points, x, 2))

(***************************************************************************)
(* domain/matcher.rs                                                       *)
(***************************************************************************)
\* faulty variant, for mutation analysis: the second triangle is not halved
CrossingAreaNoHalf(len, diff_start, diff_end, t0) ==
    RAdd(RDiv(RMul(RAbs(diff_start), t0), R(2)),
         RMul(RAbs(diff_end), RSub(len, t0)))

\* the two triangles on either side of the zero crossing at t0
CrossingArea(len, diff_start, diff_end, t0) ==
    RAdd(RDiv(RMul(RAbs(diff_start), t0), R(2)),
         RDiv(RMul(RAbs(diff_end), RSub(len, t0)), R(2)))

integral_abs_diff(len, diff_start, diff_end) ==
    Let3(len, diff_start, diff_end, LAMBDA n, d0, d1 :
        IF Signum(d0) = Signum(d1) \/ n = Zero
        THEN RMul(RDiv(RAdd(RAbs(d0), RAbs(d1)), R(2)), n)
        ELSE Let(RMul(RDiv(RNeg(d0), RSub(d1, d0)), n),
                 LAMBDA t0 : CrossingArea(n, d0, d1, t0)))

\* faulty variant, for mutation analysis: the signed area of the interval, without the absolute value
IntervalAreaSigned(actual, target, z0, s, next_s) ==
    RMul(RDiv(RAdd(RSub(RAdd(interpolate(actual, s), z0), interpolate(target, s)),
                   RSub(RAdd(interpolate(actual, next_s), z0),
                        interpolate(target, next_s))), R(2)),
         RSub(next_s, s))

\* the contribution of the interval [s, next_s] with actual shifted by z0
IntervalArea(actual, target, z0, s, next_s) ==
    integral_abs_diff(RSub(next_s, s),
                      RSub(RAdd(interpolate(actual, s), z0), interpolate(target, s)),
                      RSub(RAdd(interpolate(actual, next_s), z0),
                           interpolate(target, next_s)))

\* The merged-breakpoint loop of score (lines 23-42 with z0 = 0, lines 59-78
\* with the calibrated z0).  The variables of the loop are the record
\* c = [i_a, i_t, s, area]; i_a, i_t are the 0-based indices of the code.
\* the end of the body: area, s, i_a and i_t after the interval [s, next_s]
AreaAdvance(actual, target, z0, c, next_s_a, next_s_t, next_s) ==
    [i_a |-> IF next_s = next_s_a THEN c.i_a + 1 ELSE c.i_a,
     i_t |-> IF next_s = next_s_t THEN c.i_t + 1 ELSE c.i_t,
     s |-> next_s,
     area |-> IF RLt(Zero, RSub(next_s, c.s))
              THEN RAdd(c.area, IntervalArea(actual, target, z0, c.s, next_s))
              ELSE c.area]

\* one pass through the body: next_s_a, next_s_t and their minimum next_s
AreaNext(actual, target, z0, c) ==
    Let2(IF c.i_a < Len(actual) - 1 THEN actual[c.i_a + 2][1] ELSE INF,
         IF c.i_t < Len(target) - 1 THEN target[c.i_t + 2][1] ELSE INF,
         LAMBDA n_a, n_t :
             Let(RMin(n_a, n_t), LAMBDA next_s :
                 AreaAdvance(actual, target, z0, c, n_a, n_t, next_s)))

RECURSIVE AreaLoop(_, _, _, _)
AreaLoop(actual, target, z0, vars0) ==
    Let(vars0, LAMBDA c :
        IF ~(c.i_a < Len(actual) - 1 \/ c.i_t < Len(target) - 1) THEN c.area
        ELSE AreaLoop(actual, target, z0, AreaNext(actual, target, z0, c)))

\* let mut area = 0.0; let mut i_a = 0; let mut i_t = 0; let mut s = 0.0;
AreaStart == [i_a |-> 0, i_t |-> 0, s |-> Zero, area |-> Zero]

\* sum over target.points of actual.interpolate(p.0) - p.1
RECURSIVE SumDiff(_, _, _)
SumDiff(actual, samples, i) ==
    IF i > Len(samples) THEN Zero
    ELSE RAdd(RSub(interpolate(actual, samples[i][1]), samples[i][2]),
              SumDiff(actual, samples, i + 1))

OffsetZ0(actual, target) ==
    RDiv(RNeg(SumDiff(actual, target, 1)), R(Len(target)))

score(use_offset, actual, target) ==
    Let2(actual, target, LAMBDA a, t :
        IF total_length(t) = Zero THEN Zero
        ELSE IF ~use_offset THEN AreaLoop(a, t, Zero, AreaStart)
        ELSE Let(OffsetZ0(a, t), LAMBDA z0 : AreaLoop(a, t, z0, AreaStart)))

(***************************************************************************)
(* infrastructure/spatial.rs                                               *)
(* A point is <<x, y>>.  A SpatialEdge is a record                         *)
(* [p_u, p_v, u, v, e_idx, length, climb, slope, id].                      *)
(***************************************************************************)
\* AABB::from_points / AABB::from_corners: componentwise minimum and maximum
AABB(p, q) ==
    [lower |-> <<RMin(p[1], q[1]), RMin(p[2], q[2])>>,
     upper |-> <<RMax(p[1], q[1]), RMax(p[2], q[2])>>]

envelope(se) == AABB(se.p_u, se.p_v)

\* param: dot / len_sq, or -1.0 for a segment of length 0
SegmentParam(a, b, c, d, len_sq) ==
    Let(len_sq, LAMBDA n :
        IF n # Zero THEN RDiv(RAdd(RMul(a, c), RMul(b, d)), n) ELSE R(-1))

ProjectAt(se, c, d, param) ==
    Let(param, LAMBDA t :
        [proj |-> IF RLt(t, Zero) THEN se.p_u
                  ELSE IF RLt(One, t) THEN se.p_v
                  ELSE <<RAdd(se.p_u[1], RMul(t, c)), RAdd(se.p_u[2], RMul(t, d))>>,
         fraction |-> RMin(RMax(t, Zero), One)])

ProjectAlong(point, se, c, d) ==
    Let(c, LAMBDA dx : Let(d, LAMBDA dy :
        ProjectAt(se, dx, dy,
                  SegmentParam(RSub(point[1], se.p_u[1]), RSub(point[2], se.p_u[2]),
                               dx, dy, RAdd(RMul(dx, dx), RMul(dy, dy))))))

project_point_to_segment(point, se) ==
    ProjectAlong(point, se, RSub(se.p_v[1], se.p_u[1]), RSub(se.p_v[2], se.p_u[2]))

\* (proj[0] - point[0]).powi(2) + (proj[1] - point[1]).powi(2).sqrt():
\* the square root binds to the second term only, and sqrt(y^2) = |y|
SquarePlusRoot(point, proj) ==
    Let(proj, LAMBDA pr : RAdd(RSq(RSub(pr[1], point[1])), RAbs(RSub(pr[2], point[2]))))

distance_to_point(point, se) ==
    SquarePlusRoot(point, project_point_to_segment(point, se).proj)

\* rstar's Envelope::contains_envelope, the test of locate_in_envelope
ContainsEnvelope(outer, inner) ==
    /\ RLe(outer.lower[1], inner.lower[1]) /\ RLe(outer.lower[2], inner.lower[2])
    /\ RLe(inner.upper[1], outer.upper[1]) /\ RLe(inner.upper[2], outer.upper[2])

\* RTree::locate_in_envelope: the entries whose envelope lies inside the box,
\* in the iteration order of the tree (the order of the sequence rtree)
locate_in_envelope(rtree, box) ==
    Let(box, LAMBDA bb : SelectSeq(rtree, LAMBDA e : ContainsEnvelope(bb, envelope(e))))

(***************************************************************************)
(* application/services.rs: build_graph_from_jsonl                         *)
(* A RoadGraph is [nodes, edges, node_map]: nodes and edges in handle      *)
(* order (StableGraph::add_node / add_edge append), node_map a function    *)
(* from external node id to NodeIndex.  A record of the feed is            *)
(* [type, id, x, y, elev, u, v, length_m, climb_m, slope], each field an   *)
(* Option: None when the JSON field is missing or of the wrong type        *)
(* (as_str / as_u64 / as_f64 returning None).                              *)
(***************************************************************************)
EmptyGraph == [nodes |-> <<>>, edges |-> <<>>, node_map |-> <<>>]

\* HashMap::insert
MapInsert(m, k, v) == [i \in DOMAIN m \cup {k} |-> IF i = k THEN v ELSE m[i]]
\* HashMap::get
MapGet(m, k) == IF k \in DOMAIN m THEN Some(m[k]) ELSE None

\* faulty variant, for mutation analysis: an edge naming an unknown node is skipped instead of failing
IngestRecordLenient(g, rec) ==
    IF rec.type = Some("meta") THEN Some(g)
    ELSE IF rec.type = Some("node") THEN
        IF ~rec.id.some \/ ~rec.x.some \/ ~rec.y.some \/ ~rec.elev.some THEN None
        ELSE Some([g EXCEPT
                    !.nodes = Append(@, [x |-> rec.x.val, y |-> rec.y.val,
                                         elev |-> rec.elev.val]),
                    !.node_map = MapInsert(@, rec.id.val, Len(g.nodes))])
    ELSE IF rec.type = Some("edge") THEN
        IF \/ ~rec.id.some \/ ~rec.u.some \/ ~rec.v.some
           \/ ~rec.length_m.some \/ ~rec.climb_m.some \/ ~rec.slope.some THEN None
        ELSE IF ~MapGet(g.node_map, rec.u.val).some \/ ~MapGet(g.node_map, rec.v.val).some
             THEN Some(g)
             ELSE Some([g EXCEPT
                    !.edges = Append(@, [u |-> g.node_map[rec.u.val],
                                         v |-> g.node_map[rec.v.val],
                                         id |-> rec.id.val,
                                         length |-> rec.length_m.val,
                                         climb |-> rec.climb_m.val,
                                         slope |-> rec.slope.val])])
    ELSE None

\* the body of the `for line` loop: Some(graph) after the record, None on Err
IngestRecord(g, rec) ==
    IF rec.type = Some("meta") THEN Some(g)
    ELSE IF rec.type = Some("node") THEN
        IF ~rec.id.some \/ ~rec.x.some \/ ~rec.y.some \/ ~rec.elev.some THEN None
        ELSE LET idx == Len(g.nodes)
             IN  Some([g EXCEPT
                        !.nodes = Append(@, [x |-> rec.x.val, y |-> rec.y.val,
                                             elev |-> rec.elev.val]),
                        !.node_map = MapInsert(@, rec.id.val, idx)])
    ELSE IF rec.type = Some("edge") THEN
        IF \/ ~rec.id.some \/ ~rec.u.some \/ ~rec.v.some
           \/ ~rec.length_m.some \/ ~rec.climb_m.some \/ ~rec.slope.some THEN None
        ELSE LET u_idx == MapGet(g.node_map, rec.u.val)
                 v_idx == MapGet(g.node_map, rec.v.val)
             IN  IF ~u_idx.some \/ ~v_idx.some THEN None
                 ELSE Some([g EXCEPT
                        !.edges = Append(@, [u |-> u_idx.val, v |-> v_idx.val,
                                             id |-> rec.id.val,
                                             length |-> rec.length_m.val,
                                             climb |-> rec.climb_m.val,
                                             slope |-> rec.slope.val])])
    ELSE None

\* build_graph_from_jsonl on a whole feed: Some(graph) for Ok, None for Err
RECURSIVE BuildFrom(_, _)
BuildFrom(g, records) ==
    IF records = <<>> THEN Some(g)
    ELSE LET r == IngestRecord(g, Head(records))
         IN  IF r.some THEN BuildFrom(r.val, Tail(records)) ELSE None

build_graph_from_jsonl(records) == BuildFrom(EmptyGraph, records)

\* build_spatial_index: one SpatialEdge per edge, in edge_indices() order
spatial_edges(g) ==
    [i \in 1..Len(g.edges) |->
        LET e == g.edges[i]
        IN  [p_u |-> <<g.nodes[e.u + 1].x, g.nodes[e.u + 1].y>>,
             p_v |-> <<g.nodes[e.v + 1].x, g.nodes[e.v + 1].y>>,
             u |-> e.u, v |-> e.v, e_idx |-> i - 1,
             length |-> e.length, climb |-> e.climb, slope |-> e.slope, id |-> e.id]]

\* RTree::bulk_load fixes the tree, hence the order in which a query yields
\* its entries; the order is a property of the index, any permutation here
BulkLoads(entries) ==
    { [i \in 1..Len(entries) |-> entries[f[i]]] : f \in Permutations(1..Len(entries)) }

(***************************************************************************)
(* application/services.rs: find_route                                     *)
(* AppData is [graph, rtree]; a Query is [c, d, p]; a PartialPath is       *)
(* [node, length, cum_area, rel_elev, path, first_fraction,                *)
(* first_edge_idx], path a sequence of <<e_idx, fraction_end>>.            *)
(***************************************************************************)
beam_width == 50

\* faulty variant, for mutation analysis: the absolute tolerance floor doubled
EpsTen(l) == RMax(R(10), RMul(Q(5, 100), l))

Eps(l) == RMax(R(5), RMul(Q(5, 100), l))

\* (2.0 * l / 50.0) as usize
MaxSteps(l) == AsUsize(RDiv(RMul(R(2), l), R(50)))

EdgeAt(g, e_idx) == g.edges[e_idx + 1]

\* faulty variant, for mutation analysis: the zero-length guard is missing
NeverZeroLength(query) == FALSE

\* lines 83-86: `if l == 0.0 { return Ok(None); }`
ZeroLengthTarget(query) == total_length(query.p) = Zero

\* AABB::from_corners([cx - d, cy - d], [cx + d, cy + d])
bound_box(query) ==
    AABB(<<RSub(query.c[1], query.d), RSub(query.c[2], query.d)>>,
         <<RAdd(query.c[1], query.d), RAdd(query.c[2], query.d)>>)

candidates(data, query) == locate_in_envelope(data.rtree, bound_box(query))

\* the radius filter `if dist > query.d { continue; }`
WithinRadius(query, se) == ~RLt(query.d, distance_to_point(query.c, se))

\* the PartialPath of a seed on se that ends at `node`
SeedAt(query, se, node, fraction, partial_len, partial_climb) ==
    Let(partial_len, LAMBDA len : Let(partial_climb, LAMBDA climb :
        [node |-> node, length |-> len,
         cum_area |-> integral_abs_diff(len,
                          RSub(Zero, interpolate(query.p, Zero)),
                          RSub(climb, interpolate(query.p, len))),
         rel_elev |-> climb, path |-> <<>>,
         first_fraction |-> fraction, first_edge_idx |-> Some(se.e_idx)]))

SeedFrom(query, se, node, fraction) ==
    Let(fraction, LAMBDA f :
        SeedAt(query, se, node, f, RMul(RSub(One, f), se.length), RMul(RSub(One, f), se.climb)))

\* faulty variant, for mutation analysis: the seed starts at the upstream node se.u
SeedPathUpstream(query, se) ==
    SeedFrom(query, se, se.u, project_point_to_segment(query.c, se).fraction)

SeedPath(query, se) ==
    SeedFrom(query, se, se.v, project_point_to_segment(query.c, se).fraction)

\* the loop over the candidates: those past the radius filter, each seeded
SeedAll(query, cands) ==
    Let(SelectSeq(cands, LAMBDA se : WithinRadius(query, se)), LAMBDA near :
        [i \in 1..Len(near) |-> SeedPath(query, near[i])] \o <<>>)

start_partials(data, query) == SeedAll(query, candidates(data, query))

\* StableGraph (directed): the edges leaving node a, most recently added first
OutEdges(g, a) ==
    SelectSeq([i \in 1..Len(g.edges) |-> Len(g.edges) - i], LAMBDA h : EdgeAt(g, h).u = a)

\* graph.neighbors(a): the target of every edge leaving a
neighbors(g, a) ==
    Let(OutEdges(g, a), LAMBDA out : [i \in 1..Len(out) |-> EdgeAt(g, out[i]).v])

\* graph.find_edge(a, b): the first edge from a to b in the same order
FirstTo(g, out, b) ==
    Let(SelectSeq(out, LAMBDA h : EdgeAt(g, h).v = b), LAMBDA to :
        IF to = <<>> THEN None ELSE Some(Head(to)))

find_edge(g, a, b) == FirstTo(g, OutEdges(g, a), b)

\* the extension guard `if new_len > l + eps * 2.0 { continue; }`
TooLong(new_len, l) == RLt(RAdd(l, RMul(Eps(l), R(2))), new_len)

\* the child of `path` that appends edge e_idx and reaches n_e
ChildAt(path, query, n_e, e_idx, edge, new_len, new_rel) ==
    Let(new_len, LAMBDA len : Let(new_rel, LAMBDA rel :
        [node |-> n_e, length |-> len,
         cum_area |-> RAdd(path.cum_area,
                           integral_abs_diff(edge.length,
                               RSub(path.rel_elev, interpolate(query.p, path.length)),
                               RSub(rel, interpolate(query.p, len)))),
         rel_elev |-> rel, path |-> Append(path.path, <<e_idx, One>>),
         first_fraction |-> path.first_fraction,
         first_edge_idx |-> path.first_edge_idx]))

ChildAlong(path, query, n_e, e_idx, edge) ==
    Let(edge, LAMBDA e :
        ChildAt(path, query, n_e, e_idx, e,
                RAdd(path.length, e.length), RAdd(path.rel_elev, e.climb)))

ChildVia(path, data, query, n_e, e_idx) ==
    Let(e_idx, LAMBDA h : ChildAlong(path, query, n_e, h, EdgeAt(data.graph, h)))

\* the child of `path` along the edge found for neighbour n_e
Child(path, data, query, n_e) ==
    Let(n_e, LAMBDA n : ChildVia(path, data, query, n, find_edge(data.graph, path.node, n).val))

\* the children of `path` over the neighbours ns, those too long skipped
ExtendOver(path, data, query, ns) ==
    Let([i \in 1..Len(ns) |-> Child(path, data, query, ns[i])] \o <<>>, LAMBDA cs :
        SelectSeq(cs, LAMBDA c : ~TooLong(c.length, total_length(query.p))))

Extend(path, data, query) ==
    Let(path, LAMBDA p : ExtendOver(p, data, query, neighbors(data.graph, p.node)))

\* points.push((s + frac * length, rel + frac * climb))
PushPoint(points, last, frac, edge) ==
    Append(points, <<RAdd(last[1], RMul(frac, edge.length)),
                     RAdd(last[2], RMul(frac, edge.climb))>>)

\* the loop of extract_profile over path.path, from position i on
RECURSIVE PushFrom(_, _, _, _)
PushFrom(points, path, data, i) ==
    Let(points, LAMBDA pts :
        IF i > Len(path.path) THEN pts
        ELSE PushFrom(PushPoint(pts, pts[Len(pts)], path.path[i][2],
                                EdgeAt(data.graph, path.path[i][1])),
                      path, data, i + 1))

extract_profile(path, data) ==
    PushFrom(IF path.first_edge_idx.some
             THEN PushPoint(<< <<Zero, Zero>> >>, <<Zero, Zero>>,
                            RSub(One, path.first_fraction),
                            EdgeAt(data.graph, path.first_edge_idx.val))
             ELSE << <<Zero, Zero>> >>,
             path, data, 1)

\* faulty variant, for mutation analysis: the tolerance test without .abs()
InToleranceOneSided(path, l) == RLe(RSub(path.length, l), Eps(l))

\* (path.length - l).abs() <= eps
InTolerance(path, l) == RLe(RAbs(RSub(path.length, l)), Eps(l))

\* path.length > l + eps
Overshoot(path, l) == RLt(RAdd(l, Eps(l)), path.length)

\* faulty variant, for mutation analysis: completions are ranked by the accumulated area of the search
CumAreaScore(path, data, query) == path.cum_area

FinalScore(path, data, query) == score(TRUE, extract_profile(path, data), query.p)

\* best is None or Some(<<score, path>>); replaced only by a strictly lower score
BestWith(best, sc, path) ==
    Let2(best, sc, LAMBDA b, x :
        IF b.some
        THEN IF RLt(x, b.val[1]) THEN Some(<<x, path>>) ELSE b
        ELSE Some(<<x, path>>))

UpdateBest(best, path, data, query) ==
    BestWith(best, FinalScore(path, data, query), path)

\* the body of `for path in beam` inside the loop for one path; acc is the
\* best and the next_beam so far
ProcessPath(path, acc, data, query) ==
    IF Overshoot(path, total_length(query.p)) THEN acc
    ELSE [best |-> IF InTolerance(path, total_length(query.p))
                   THEN UpdateBest(acc.best, path, data, query)
                   ELSE acc.best,
          next_beam |-> acc.next_beam \o Extend(path, data, query)]

\* `for path in beam` over the positions lo..hi: the first half, then the
\* second half from where the first half left off
RECURSIVE ProcessRange(_, _, _, _, _, _)
ProcessRange(bm, lo, hi, acc, data, query) ==
    Let(acc, LAMBDA r :
        IF lo > hi THEN r
        ELSE IF lo = hi THEN ProcessPath(bm[lo], r, data, query)
        ELSE ProcessRange(bm, (lo + hi) \div 2 + 1, hi,
                          ProcessRange(bm, lo, (lo + hi) \div 2, r, data, query),
                          data, query))

\* `for path in beam` inside the loop, from position i on
ProcessBeam(bm, i, best, next_beam, data, query) ==
    ProcessRange(bm, i, Len(bm), [best |-> best, next_beam |-> next_beam], data, query)

Estimate(p, l) ==
    IF RLt(Zero, p.length) /\ IsFinite(p.cum_area)
    THEN RMul(RDiv(p.cum_area, p.length), l)
    ELSE INF

\* the paths with their estimates, each estimate computed once
Keyed(paths, l) ==
    Let(paths, LAMBDA ps : [i \in 1..Len(ps) |-> <<Estimate(ps[i], l), ps[i]>>] \o <<>>)

\* the merge of two sorted runs: an entry of the left run goes before the
\* entries of the right run that are not lower, an entry of the right run
\* after the entries of the left run that are not greater
MergeKeyed(left, right) ==
    Let(left, LAMBDA a : Let(right, LAMBDA b :
        Let([i \in 1..Len(a) |->
                i + Cardinality({ j \in 1..Len(b) : RLt(b[j][1], a[i][1]) })] \o <<>>,
            LAMBDA posA :
                Let([j \in 1..Len(b) |->
                        j + Cardinality({ i \in 1..Len(a) : RLe(a[i][1], b[j][1]) })] \o <<>>,
                    LAMBDA posB :
                        [k \in 1..(Len(a) + Len(b)) |->
                            IF \E i \in 1..Len(a) : posA[i] = k
                            THEN a[CHOOSE i \in 1..Len(a) : posA[i] = k]
                            ELSE b[CHOOSE j \in 1..Len(b) : posB[j] = k]] \o <<>>))))

RECURSIVE SortKeyed(_)
SortKeyed(keyed) ==
    Let(keyed, LAMBDA ks :
        IF Len(ks) <= 1 THEN ks
        ELSE MergeKeyed(SortKeyed(SubSeq(ks, 1, Len(ks) \div 2)),
                        SortKeyed(SubSeq(ks, Len(ks) \div 2 + 1, Len(ks)))))

\* slice::sort_by: a stable merge sort by estimate
StableSortByEstimate(paths, l) ==
    Let(SortKeyed(Keyed(paths, l)), LAMBDA ks : [i \in 1..Len(ks) |-> ks[i][2]] \o <<>>)

\* faulty variant, for mutation analysis: a sort that is free to order tied estimates either way
RECURSIVE InsertBeforeTies(_, _, _)
InsertBeforeTies(p, sorted, l) ==
    Let(sorted, LAMBDA rest :
        IF rest = <<>> THEN <<p>>
        ELSE IF RLe(Estimate(p, l), Estimate(Head(rest), l)) THEN <<p>> \o rest
        ELSE <<Head(rest)>> \o InsertBeforeTies(p, Tail(rest), l))

RECURSIVE SortTiesReversed(_, _)
SortTiesReversed(paths, l) ==
    Let(paths, LAMBDA ps :
        IF ps = <<>> THEN <<>>
        ELSE InsertBeforeTies(ps[Len(ps)],
                              SortTiesReversed(SubSeq(ps, 1, Len(ps) - 1), l), l))

SortOutcomesUnstable(paths, l) ==
    { StableSortByEstimate(paths, l), SortTiesReversed(paths, l) }

\* next_beam.sort_by(..): the orders the sort may leave; slice::sort_by is
\* stable, so there is exactly one
SortOutcomes(paths, l) == { StableSortByEstimate(paths, l) }

\* faulty variant, for mutation analysis: one path more than asked for is kept
TakeOneMore(s, n) == SubSeq(s, 1, IF Len(s) < n + 1 THEN Len(s) ELSE n + 1)

\* into_iter().take(n)
Take(s, n) == SubSeq(s, 1, IF Len(s) < n THEN Len(s) ELSE n)

\* the pass over the remaining beam after the loop, over the positions
\* lo..hi: the first half, then the second half
RECURSIVE FinalPassRange(_, _, _, _, _, _)
FinalPassRange(bm, lo, hi, best, data, query) ==
    Let(best, LAMBDA b :
        IF lo > hi THEN b
        ELSE IF lo = hi
        THEN (IF InTolerance(bm[lo], total_length(query.p))
              THEN UpdateBest(b, bm[lo], data, query) ELSE b)
        ELSE FinalPassRange(bm, (lo + hi) \div 2 + 1, hi,
                            FinalPassRange(bm, lo, (lo + hi) \div 2, b, data, query),
                            data, query))

FinalPassFrom(bm, i, best, data, query) == FinalPassRange(bm, i, Len(bm), best, data, query)

\* faulty variant, for mutation analysis: ti is 1 - first_fraction even when edges were appended
RouteOfSeedOnly(best_path, data) ==
    LET first_id == IF best_path.first_edge_idx.some
                    THEN <<EdgeAt(data.graph, best_path.first_edge_idx.val).id>>
                    ELSE <<>>
        rest == [i \in 1..Len(best_path.path) |->
                    EdgeAt(data.graph, best_path.path[i][1]).id]
    IN  [si |-> best_path.first_fraction, ti |-> RSub(One, best_path.first_fraction),
         edge_ids |-> first_id \o rest]

\* the Route built from the best path
RouteOf(best_path, data) ==
    LET first_id == IF best_path.first_edge_idx.some
                    THEN <<EdgeAt(data.graph, best_path.first_edge_idx.val).id>>
                    ELSE <<>>
        rest == [i \in 1..Len(best_path.path) |->
                    EdgeAt(data.graph, best_path.path[i][1]).id]
        ti == IF best_path.path # <<>>
              THEN best_path.path[Len(best_path.path)][2]
              ELSE RSub(One, best_path.first_fraction)
    IN  [si |-> best_path.first_fraction, ti |-> ti, edge_ids |-> first_id \o rest]

(***************************************************************************)
(* State                                                                   *)
(***************************************************************************)
VARIABLES
    feed,      \* build_graph_from_jsonl: the records read so far
    graph,     \* build_graph_from_jsonl: the graph under construction
    build,     \* "idle", "reading", "ok" or "err"
    built,     \* what build_graph_from_jsonl returned: Some(RoadGraph) or None
    data,      \* the snapshot (AppData) the queries run on
    query,     \* the Query of the current call of find_route
    pc,        \* find_route: "idle", "start", "loop", "select" or "done"
    beam,      \* find_route: the current beam
    best,      \* find_route: the best completion so far
    step,      \* find_route: iterations of the loop performed
    result,    \* find_route: the returned Option<Route>
    beams,     \* the beams the call went through, start_partials first
    runNo,     \* which call on this snapshot and query is running
    first,     \* what the previous call went through and returned
    call,      \* a direct call of a pure function: its name and arguments
    ret        \* that call's return value

buildVars == <<feed, graph, build, built>>
routeVars == <<data, query, pc, beam, best, step, result, beams, runNo, first>>
pureVars == <<call, ret>>
vars == <<feed, graph, build, built, data, query, pc, beam, best, step, result,
          beams, runNo, first, call, ret>>

(***************************************************************************)
(* Inputs                                                                  *)
(***************************************************************************)
MaxEdges == 2
MaxFeed == 3
MaxRuns == 2

NoRecord ==
    [type |-> None, id |-> None, x |-> None, y |-> None, elev |-> None, u |-> None,
     v |-> None, length_m |-> None, climb_m |-> None, slope |-> None]

NodeRec(id, x, y) ==
    [NoRecord EXCEPT !.type = Some("node"), !.id = Some(id), !.x = Some(x), !.y = Some(y),
                     !.elev = Some(Zero)]

EdgeRec(id, u, v, length, climb) ==
    [NoRecord EXCEPT !.type = Some("edge"), !.id = Some(id), !.u = Some(u), !.v = Some(v),
                     !.length_m = Some(length), !.climb_m = Some(climb),
                     !.slope = Some(RDiv(climb, RMax(length, One)))]

\* three nodes on a line: ids 0, 1, 2 at x = 0, 50, 110
LineNodes == <<NodeRec(0, R(0), R(0)), NodeRec(1, R(50), R(0)), NodeRec(2, R(110), R(0))>>

EdgePalette ==
    { EdgeRec(1, 0, 1, R(50), R(0)),     \* edge 1 of the line graph
      EdgeRec(2, 1, 2, R(60), R(0)),     \* edge 2 of the line graph
      EdgeRec(3, 1, 2, R(60), R(10)),    \* parallel to edge 2, climbing
      EdgeRec(4, 1, 0, R(50), R(0)),     \* back to node 0: a cycle with edge 1
      EdgeRec(5, 1, 1, R(0), R(0)),      \* a zero-length self-loop
      EdgeRec(1, 0, 0, R(50), R(5)) }    \* a self-loop reusing external id 1

RECURSIVE SeqsUpTo(_, _)
SeqsUpTo(S, n) ==
    IF n = 0 THEN {<<>>}
    ELSE LET shorter == SeqsUpTo(S, n - 1)
         IN  shorter \cup { Append(q, x) : q \in shorter, x \in S }

QueryFeeds == { LineNodes \o es : es \in SeqsUpTo(EdgePalette, MaxEdges) }

RawTargets ==
    { <<>>,
      << <<R(5), R(0)>> >>,
      << <<R(50), R(5)>> >>,
      << <<R(0), R(0)>>, <<R(100), R(0)>> >>,
      << <<R(50), R(10)>>, <<R(110), R(0)>> >> }

\* query.rs builds the target with Profile::new.  The queries are centered
\* on node 0 with a radius of 5, 50 or 3000, or just off node 0 at
\* (-1/2, -1/4) with a radius of 1/2.
Queries ==
    { [c |-> <<R(0), R(0)>>, d |-> d, p |-> ProfileNew(raw)] :
        d \in {R(5), R(50), R(3000)}, raw \in RawTargets }
    \cup
    { [c |-> <<Q(-1, 2), Q(-1, 4)>>, d |-> Q(1, 2), p |-> ProfileNew(raw)] :
        raw \in RawTargets }

(***************************************************************************)
(* find_route as a state machine                                           *)
(***************************************************************************)
RouteIdle ==
    /\ pc = "start" /\ beam = <<>> /\ best = None /\ step = 0
    /\ result = None /\ beams = <<>>

Init ==
    /\ feed \in QueryFeeds
    /\ built = build_graph_from_jsonl(feed)
    /\ built.some
    /\ graph = built.val
    /\ build = "ok"
    /\ \E rtree \in BulkLoads(spatial_edges(built.val)) :
          data = [graph |-> built.val, rtree |-> rtree]
    /\ query \in Queries
    /\ RouteIdle
    /\ runNo = 1 /\ first = None
    /\ call = None /\ ret = None

\* lines 83-117: the zero-length guard, seeding, the empty-seed guard
Seed ==
    /\ pc = "start"
    /\ IF ZeroLengthTarget(query)
       THEN /\ pc' = "done" /\ result' = None
            /\ UNCHANGED <<beam, best, step, beams>>
       ELSE LET sp == start_partials(data, query)
            IN  IF sp = <<>>
                THEN /\ pc' = "done" /\ result' = None
                     /\ beams' = <<sp>>
                     /\ UNCHANGED <<beam, best, step>>
                ELSE /\ pc' = "loop" /\ beam' = sp /\ best' = None /\ step' = 0
                     /\ beams' = <<sp>>
                     /\ UNCHANGED result
    /\ UNCHANGED <<data, query, runNo, first>>
    /\ UNCHANGED buildVars /\ UNCHANGED pureVars

\* lines 119-180: one iteration of `for _step in 0..max_steps`
BeamStep ==
    /\ pc = "loop"
    /\ step < MaxSteps(total_length(query.p))
    /\ beam # <<>>
    /\ LET r == ProcessBeam(beam, 1, best, <<>>, data, query)
       IN  /\ best' = r.best
           /\ \E sorted \in SortOutcomes(r.next_beam, total_length(query.p)) :
                 /\ beam' = Take(sorted, beam_width)
                 /\ beams' = Append(beams, Take(sorted, beam_width))
    /\ step' = step + 1
    /\ UNCHANGED <<pc, result, data, query, runNo, first>>
    /\ UNCHANGED buildVars /\ UNCHANGED pureVars

\* faulty variant, for mutation analysis: the loop is left on an empty beam only, the step cap does not end it
FinalPassWhenEmpty ==
    /\ pc = "loop"
    /\ beam = <<>>
    /\ best' = FinalPassFrom(beam, 1, best, data, query)
    /\ pc' = "select"
    /\ UNCHANGED <<beam, step, result, beams, data, query, runNo, first>>
    /\ UNCHANGED buildVars /\ UNCHANGED pureVars

\* lines 181-195: the loop is over (max_steps reached or `break` on an empty
\* beam); the pass over what remains in the beam
FinalPass ==
    /\ pc = "loop"
    /\ ~(step < MaxSteps(total_length(query.p)) /\ beam # <<>>)
    /\ best' = FinalPassFrom(beam, 1, best, data, query)
    /\ pc' = "select"
    /\ UNCHANGED <<beam, step, result, beams, data, query, runNo, first>>
    /\ UNCHANGED buildVars /\ UNCHANGED pureVars

\* lines 196-219: the Route of the best completion, or None
Reconstruct ==
    /\ pc = "select"
    /\ result' = IF best.some THEN Some(RouteOf(best.val[2], data)) ELSE None
    /\ pc' = "done"
    /\ UNCHANGED <<beam, best, step, beams, data, query, runNo, first>>
    /\ UNCHANGED buildVars /\ UNCHANGED pureVars

\* the caller calls find_route again on the same snapshot and query
Rerun ==
    /\ pc = "done"
    /\ runNo < MaxRuns
    /\ first' = Some([result |-> result, beams |-> beams])
    /\ runNo' = runNo + 1
    /\ pc' = "start" /\ beam' = <<>> /\ best' = None /\ step' = 0
    /\ result' = None /\ beams' = <<>>
    /\ UNCHANGED <<data, query>>
    /\ UNCHANGED buildVars /\ UNCHANGED pureVars

Next == Seed \/ BeamStep \/ FinalPass \/ Reconstruct \/ Rerun

Spec == Init /\ [][Next]_vars

\* find_route is straight-line sequential code: a call that has a step to
\* take takes it
SpecLive == Init /\ [][Next]_vars /\ WF_vars(Next)

(***************************************************************************)
(* find_route on snapshots where one iteration emits more children than    *)
(* the beam holds, and on snapshots with several completions               *)
(***************************************************************************)
Spokes == 8

\* a hub (id 0) at the origin and the spokes 1..Spokes at x = 1..Spokes
StarNodes ==
    <<NodeRec(0, R(0), R(0))>> \o [i \in 1..Spokes |-> NodeRec(i, R(i), R(0))]

\* edge i leads from spoke i to the hub, edge 100 + i from the hub to spoke i;
\* all are 20 long, the climb of the outward edges is given by Climb
StarFeed(Climb(_)) ==
    StarNodes
    \o [i \in 1..Spokes |-> EdgeRec(i, i, 0, R(20), R(0))]
    \o [i \in 1..Spokes |-> EdgeRec(100 + i, 0, i, R(20), Climb(i))]

Level(i) == R(0)
Stepped(i) == R(i % 3)
Rising(i) == R(i)

StarFeeds == { StarFeed(Level), StarFeed(Stepped), StarFeed(Rising) }

\* two self-loops of length 50 at node 0: a flat one and a descending one, or
\* two flat ones
PairFeeds ==
    { LineNodes \o <<EdgeRec(1, 0, 0, R(50), R(0)), EdgeRec(2, 0, 0, R(50), R(-1))>>,
      LineNodes \o <<EdgeRec(1, 0, 0, R(50), R(0)), EdgeRec(2, 0, 0, R(50), R(0))>> }

BeamFeeds == StarFeeds \cup PairFeeds

BeamTargets ==
    { << <<R(40), R(0)>> >>,
      << <<R(20), R(2)>>, <<R(40), R(2)>> >>,
      << <<R(24), R(5)>>, <<R(48), R(0)>> >> }

BeamQueries ==
    { [c |-> <<R(0), R(0)>>, d |-> R(3000), p |-> ProfileNew(raw)] : raw \in BeamTargets }

Reverse(s) == [i \in 1..Len(s) |-> s[Len(s) + 1 - i]]

\* the index yields its entries in edge order or in the opposite order
InitBeam ==
    /\ feed \in BeamFeeds
    /\ built = build_graph_from_jsonl(feed)
    /\ built.some
    /\ graph = built.val
    /\ build = "ok"
    /\ \E rtree \in { spatial_edges(built.val), Reverse(spatial_edges(built.val)) } :
          data = [graph |-> built.val, rtree |-> rtree]
    /\ query \in BeamQueries
    /\ RouteIdle
    /\ runNo = 1 /\ first = None
    /\ call = None /\ ret = None

SpecBeam == InitBeam /\ [][Next]_vars

(***************************************************************************)
(* find_route on queries whose center lies off the nodes, so that the seed *)
(* edge is entered part-way                                                *)
(***************************************************************************)
\* above edge 1 at x = 20, on node 1, and below the parallel edges at x = 80
RouteCenters == { <<R(20), R(3)>>, <<R(50), R(0)>>, <<R(80), R(-2)>> }

RouteTargets ==
    { << <<R(30), R(0)>> >>,
      << <<R(60), R(5)>> >>,
      << <<R(0), R(0)>>, <<R(90), R(0)>> >> }

RouteQueries ==
    { [c |-> c, d |-> R(3000), p |-> ProfileNew(raw)] :
        c \in RouteCenters, raw \in RouteTargets }

InitRoute ==
    /\ feed \in QueryFeeds
    /\ built = build_graph_from_jsonl(feed)
    /\ built.some
    /\ graph = built.val
    /\ build = "ok"
    /\ \E rtree \in { spatial_edges(built.val), Reverse(spatial_edges(built.val)) } :
          data = [graph |-> built.val, rtree |-> rtree]
    /\ query \in RouteQueries
    /\ RouteIdle
    /\ runNo = 1 /\ first = None
    /\ call = None /\ ret = None

SpecRoute == InitRoute /\ [][Next]_vars

(***************************************************************************)
(* build_graph_from_jsonl as a state machine: one record of the feed at a  *)
(* time                                                                    *)
(***************************************************************************)
Records ==
    { [NoRecord EXCEPT !.type = Some("meta")],
      [NoRecord EXCEPT !.type = Some("way")],
      NoRecord,
      NodeRec(0, R(0), R(0)),
      NodeRec(1, R(50), R(0)),
      [NodeRec(1, R(50), R(0)) EXCEPT !.x = None],
      EdgeRec(1, 0, 1, R(50), R(0)),
      EdgeRec(2, 1, 1, R(0), R(0)),
      EdgeRec(3, 0, 2, R(60), R(0)),
      [EdgeRec(4, 0, 0, R(50), R(0)) EXCEPT !.length_m = None],
      [EdgeRec(5, 0, 0, R(50), R(0)) EXCEPT !.id = None] }

RouteUnused ==
    /\ data = [graph |-> EmptyGraph, rtree |-> <<>>]
    /\ query = None
    /\ pc = "idle" /\ beam = <<>> /\ best = None /\ step = 0
    /\ result = None /\ beams = <<>>
    /\ runNo = 0 /\ first = None

InitBuild ==
    /\ feed = <<>> /\ graph = EmptyGraph /\ build = "reading" /\ built = None
    /\ RouteUnused
    /\ call = None /\ ret = None

\* lines 29-56: the next line of the file is read and ingested; the first
\* failing `?` returns the error and drops the graph
ReadRecord ==
    /\ build = "reading"
    /\ Len(feed) < MaxFeed
    /\ \E rec \in Records :
          /\ feed' = Append(feed, rec)
          /\ LET r == IngestRecord(graph, rec)
             IN  IF r.some
                 THEN graph' = r.val /\ UNCHANGED <<build, built>>
                 ELSE build' = "err" /\ built' = None /\ UNCHANGED graph
    /\ UNCHANGED routeVars /\ UNCHANGED pureVars

\* line 57: the feed is exhausted, Ok(RoadGraph { graph, node_map })
EndOfFeed ==
    /\ build = "reading"
    /\ build' = "ok"
    /\ built' = Some(graph)
    /\ UNCHANGED <<feed, graph>>
    /\ UNCHANGED routeVars /\ UNCHANGED pureVars

NextBuild == ReadRecord \/ EndOfFeed

SpecBuild == InitBuild /\ [][NextBuild]_vars

(***************************************************************************)
(* Direct calls of the pure functions                                      *)
(***************************************************************************)
\* the profile with k added to every elevation, the point at distance 0 included
Shift(profile, k) == [i \in 1..Len(profile) |-> <<profile[i][1], RAdd(profile[i][2], k)>>]

RawProfiles ==
    { << <<R(10), R(0)>> >>,
      << <<R(10), R(4)>> >>,
      << <<R(4), R(2)>>, <<R(10), R(-1)>> >>,
      << <<R(6), R(3)>> >>,
      << <<R(5), R(-2)>>, <<R(12), R(1)>> >>,
      <<>> }
Shifts == { R(0), R(1), R(-3), Q(1, 2) }

ScoreCalls ==
    { [fn |-> "score", actual |-> ProfileNew(a), k |-> k, target |-> ProfileNew(t)] :
        a \in RawProfiles, t \in RawProfiles, k \in Shifts }

GridPoints == { <<R(x), R(y)>> : x \in 0..2, y \in 0..1 }
QueryPoints == { <<R(0), R(0)>>, <<R(1), R(1)>>, <<Q(-1, 2), Q(-1, 4)>>, <<R(3), R(-1)>> }

SegmentOf(p, q) ==
    [p_u |-> p, p_v |-> q, u |-> 0, v |-> 1, e_idx |-> 0,
     length |-> One, climb |-> Zero, slope |-> Zero, id |-> 1]

DistanceCalls ==
    { [fn |-> "distance_to_point", point |-> pt, se |-> SegmentOf(p, q)] :
        pt \in QueryPoints, p \in GridPoints, q \in GridPoints }

InitPure ==
    /\ call \in { Some(c) : c \in ScoreCalls \cup DistanceCalls }
    /\ ret = None
    /\ feed = <<>> /\ graph = EmptyGraph /\ build = "idle" /\ built = None
    /\ RouteUnused

\* AreaMatcher { use_offset: true }.score on the profile and on its shift
CallScore ==
    /\ call.some /\ call.val.fn = "score" /\ ~ret.some
    /\ ret' = Some([plain |-> score(TRUE, call.val.actual, call.val.target),
                    shifted |-> score(TRUE, Shift(call.val.actual, call.val.k),
                                      call.val.target)])
    /\ UNCHANGED call /\ UNCHANGED buildVars /\ UNCHANGED routeVars

CallDistance ==
    /\ call.some /\ call.val.fn = "distance_to_point" /\ ~ret.some
    /\ ret' = Some(distance_to_point(call.val.point, call.val.se))
    /\ UNCHANGED call /\ UNCHANGED buildVars /\ UNCHANGED routeVars

NextPure == CallScore \/ CallDistance

SpecPure == InitPure /\ [][NextPure]_vars

(***************************************************************************)
(* Direct calls of integral_abs_diff, AreaMatcher { use_offset: false },   *)
(* Profile::interpolate, Profile::new and extract_profile                  *)
(***************************************************************************)
Range(f) == { f[i] : i \in DOMAIN f }

Lens == { R(0), R(1), Q(5, 2), R(10) }
Diffs == { R(-3), R(-2), Q(-1, 2), R(0), R(1), R(2), R(4) }

IntegralCalls ==
    { [fn |-> "integral_abs_diff", len |-> len, diff_start |-> d0, diff_end |-> d1] :
        len \in Lens, d0 \in Diffs, d1 \in Diffs }

\* point sequences as a caller may hand them to Profile::new: in order and
\* starting at (0,0) or not, with (0,0) in the middle, a first point at
\* distance 0 with an elevation, repeated distances, negative distances
RawPoints ==
    RawProfiles \cup
    { << <<R(0), R(0)>>, <<R(10), R(3)>> >>,
      << <<R(0), R(0)>>, <<R(4), R(-2)>>, <<R(10), R(3)>> >>,
      << <<R(5), R(1)>>, <<R(0), R(0)>> >>,
      << <<R(0), R(5)>>, <<R(10), R(0)>> >>,
      << <<R(5), R(1)>>, <<R(5), R(3)>>, <<R(10), R(0)>> >>,
      << <<R(-5), R(1)>>, <<R(10), R(2)>> >>,
      << <<R(10), R(2)>>, <<R(4), R(7)>> >> }

PlainScoreCalls ==
    { [fn |-> "score", actual |-> ProfileNew(a), target |-> ProfileNew(t)] :
        a \in RawPoints, t \in RawPoints }

SamplePoints == { R(-1), R(0), R(2), R(4), R(5), Q(15, 2), R(10), R(12), R(15) }

InterpolateCalls ==
    { [fn |-> "interpolate", profile |-> ProfileNew(raw), s |-> x] :
        raw \in RawPoints, x \in SamplePoints }

ProfileNewCalls == { [fn |-> "Profile::new", points |-> raw] : raw \in RawPoints }

\* a snapshot with a climbing edge, a zero-length self-loop and a descending edge
CallGraph ==
    build_graph_from_jsonl(LineNodes \o << EdgeRec(1, 0, 1, R(50), R(5)),
                                           EdgeRec(5, 1, 1, R(0), R(0)),
                                           EdgeRec(2, 1, 2, R(60), R(-3)) >>).val

CallData == [graph |-> CallGraph, rtree |-> spatial_edges(CallGraph)]

CallQuery == [c |-> <<R(0), R(0)>>, d |-> R(3000), p |-> ProfileNew(<< <<R(200), R(0)>> >>)]

Fractions == { Zero, Q(1, 2), One }

\* Partial Paths of the snapshot: seeds at every first fraction, their
\* children and grandchildren
SeedPaths ==
    { SeedFrom(CallQuery, CallData.rtree[i], CallData.rtree[i].v, f) :
        i \in 1..Len(CallData.rtree), f \in Fractions }

ChildrenOf(paths) == UNION { Range(Extend(path, CallData, CallQuery)) : path \in paths }

PartialPaths == SeedPaths \cup ChildrenOf(SeedPaths) \cup ChildrenOf(ChildrenOf(SeedPaths))

ExtractCalls == { [fn |-> "extract_profile", path |-> path] : path \in PartialPaths }

InitCalls ==
    /\ call \in { Some(c) : c \in IntegralCalls \cup PlainScoreCalls \cup InterpolateCalls
                                  \cup ProfileNewCalls \cup ExtractCalls }
    /\ ret = None
    /\ feed = <<>> /\ graph = EmptyGraph /\ build = "idle" /\ built = None
    /\ RouteUnused

CallIntegral ==
    /\ call.some /\ call.val.fn = "integral_abs_diff" /\ ~ret.some
    /\ ret' = Some(integral_abs_diff(call.val.len, call.val.diff_start, call.val.diff_end))
    /\ UNCHANGED call /\ UNCHANGED buildVars /\ UNCHANGED routeVars

\* AreaMatcher { use_offset: false }.score
CallPlainScore ==
    /\ call.some /\ call.val.fn = "score" /\ ~ret.some
    /\ ret' = Some(score(FALSE, call.val.actual, call.val.target))
    /\ UNCHANGED call /\ UNCHANGED buildVars /\ UNCHANGED routeVars

CallInterpolate ==
    /\ call.some /\ call.val.fn = "interpolate" /\ ~ret.some
    /\ ret' = Some(interpolate(call.val.profile, call.val.s))
    /\ UNCHANGED call /\ UNCHANGED buildVars /\ UNCHANGED routeVars

CallProfileNew ==
    /\ call.some /\ call.val.fn = "Profile::new" /\ ~ret.some
    /\ ret' = Some(ProfileNew(call.val.points))
    /\ UNCHANGED call /\ UNCHANGED buildVars /\ UNCHANGED routeVars

CallExtractProfile ==
    /\ call.some /\ call.val.fn = "extract_profile" /\ ~ret.some
    /\ ret' = Some(extract_profile(call.val.path, CallData))
    /\ UNCHANGED call /\ UNCHANGED buildVars /\ UNCHANGED routeVars

NextCalls ==
    CallIntegral \/ CallPlainScore \/ CallInterpolate \/ CallProfileNew \/ CallExtractProfile

SpecCalls == InitCalls /\ [][NextCalls]_vars

(***************************************************************************)
(* Properties                                                              *)
(***************************************************************************)
\* the square of the Euclidean distance from point to its projection on se
TrueDistSq(point, se) ==
    LET proj == project_point_to_segment(point, se).proj
    IN  RAdd(RSq(RSub(proj[1], point[1])), RSq(RSub(proj[2], point[2])))

\* se lies within Euclidean distance q.d of the center q.c
Near(q, se) == RLe(TrueDistSq(q.c, se), RSq(q.d))

\* the handles of the edges a PartialPath traverses, first edge first
Handles(path) ==
    (IF path.first_edge_idx.some THEN <<path.first_edge_idx.val>> ELSE <<>>)
    \o [i \in 1..Len(path.path) |-> path.path[i][1]]

\* (1 - si) * length(first edge) + the lengths of the further edges
RECURSIVE LengthFrom(_, _, _)
LengthFrom(g, hs, i) ==
    IF i > Len(hs) THEN Zero
    ELSE RAdd(EdgeAt(g, hs[i]).length, LengthFrom(g, hs, i + 1))

TraversedLength(g, si, hs) ==
    RAdd(RMul(RSub(One, si), EdgeAt(g, hs[1]).length), LengthFrom(g, hs, 2))

InWindow(len, l) ==
    LET eps == RMax(R(5), RDiv(l, R(20)))
    IN  RLe(RSub(l, eps), len) /\ RLe(len, RAdd(l, eps))

LineFeed == LineNodes \o <<EdgeRec(1, 0, 1, R(50), R(0)), EdgeRec(2, 1, 2, R(60), R(0))>>
FlatHundred == << <<R(0), R(0)>>, <<R(100), R(0)>> >>

\* C1's case: the line graph, the center at the start of edge 1, d >= 5, the
\* flat target of length 100
C1Case ==
    /\ feed = LineFeed
    /\ query.c = <<Zero, Zero>>
    /\ RLe(R(5), query.d)
    /\ query.p = FlatHundred

C2_ShiftInvariant ==
    (call.some /\ call.val.fn = "score" /\ ret.some
        /\ RLt(Zero, total_length(call.val.target)))
    => ret.val.shifted = ret.val.plain

\* C3: distance_to_point returns r >= 0 with r * r = dx * dx + dy * dy for
\* (dx, dy) the projected point minus the query point
C3_Euclidean ==
    (call.some /\ call.val.fn = "distance_to_point" /\ ret.some)
    => /\ RLe(Zero, ret.val)
       /\ RSq(ret.val) = TrueDistSq(call.val.point, call.val.se)

\* C4: seeding creates exactly one initial Partial Path for every edge within
\* Euclidean distance d of the center and none for any other edge
C4_SeedsExactlyNear ==
    (pc # "idle" /\ beams # <<>>) =>
        \A i \in 1..Len(data.rtree) :
            LET se == data.rtree[i]
                seeded == { j \in 1..Len(beams[1]) :
                              beams[1][j].first_edge_idx = Some(se.e_idx) }
            IN  Cardinality(seeded) = IF Near(query, se) THEN 1 ELSE 0

\* C5: every completion selected, and every Route returned, has a traversed
\* length (1 - si) * length(first edge) + lengths of the further edges
\* within [l - eps, l + eps] for eps = max(5, 0.05 * l)
C5_WithinTolerance ==
    /\ best.some =>
          InWindow(TraversedLength(data.graph, best.val[2].first_fraction,
                                   Handles(best.val[2])),
                   total_length(query.p))
    /\ (pc = "done" /\ result.some) =>
          /\ best.some
          /\ Len(result.val.edge_ids) = Len(Handles(best.val[2]))
          /\ InWindow(TraversedLength(data.graph, result.val.si, Handles(best.val[2])),
                      total_length(query.p))

\* a Route of two edges has been returned
C5_Witness ==
    /\ pc = "done" /\ result.some
    /\ Len(result.val.edge_ids) = 2
    /\ total_length(query.p) = R(110)

\* consecutive edges meet: each edge ends (at its v) where the next one is
\* entered (at its u)
Contiguous(g, hs) ==
    \A i \in 1..(Len(hs) - 1) : EdgeAt(g, hs[i]).v = EdgeAt(g, hs[i + 1]).u

\* C6: every Route returned lists the external ids of a contiguous path of
\* the graph, on graphs with cycles, self-loops and parallel edges too
C6_Contiguous ==
    (pc = "done" /\ result.some) =>
        /\ best.some
        /\ LET hs == Handles(best.val[2])
           IN  /\ hs # <<>>
               /\ result.val.edge_ids = [i \in 1..Len(hs) |-> EdgeAt(data.graph, hs[i]).id]
               /\ Contiguous(data.graph, hs)

\* a Route of at least two edges that closes a cycle has been returned
C6_Witness ==
    /\ pc = "done" /\ result.some /\ best.some
    /\ LET hs == Handles(best.val[2])
       IN  /\ Len(hs) >= 2
           /\ EdgeAt(data.graph, hs[Len(hs)]).v = EdgeAt(data.graph, hs[1]).u

\* C7: with d > 0 and no edge of the snapshot within Euclidean distance d of
\* the center, find_route returns absent
C7_AbsentWhenNoEdgeNear ==
    (pc = "done" /\ RLt(Zero, query.d)
        /\ \A i \in 1..Len(data.rtree) : ~Near(query, data.rtree[i]))
    => result = None

\* C8: a target of total length 0 makes find_route return absent without
\* seeding or searching
C8_AbsentOnZeroLength ==
    (pc = "done" /\ total_length(query.p) = Zero) =>
        /\ result = None
        /\ beams = <<>> /\ beam = <<>> /\ best = None /\ step = 0

\* a call with a zero-length target has returned absent although seeding
\* would have found an edge
C8_Witness ==
    /\ pc = "done" /\ total_length(query.p) = Zero /\ result = None
    /\ start_partials(data, query) # <<>>

\* the ids of the node records among the records
NodeIdsSeen(records) ==
    { records[i].id.val : i \in { j \in 1..Len(records) : records[j].type = Some("node") } }

RequiredFields(type) ==
    IF type = "node" THEN {"id", "x", "y", "elev"}
    ELSE IF type = "edge" THEN {"id", "u", "v", "length_m", "climb_m", "slope"}
    ELSE {}

\* the record is of a known type, has its required fields and, if an edge,
\* names nodes seen in the records before it
RecordPasses(before, rec) ==
    /\ rec.type \in {Some("meta"), Some("node"), Some("edge")}
    /\ \A f \in RequiredFields(rec.type.val) : rec[f].some
    /\ rec.type = Some("edge") =>
          rec.u.val \in NodeIdsSeen(before) /\ rec.v.val \in NodeIdsSeen(before)

PassesAt(records, i) == RecordPasses(SubSeq(records, 1, i - 1), records[i])

\* C9: the build fails, returning no graph, exactly at the first record that
\* does not pass; it returns a graph only when every record passed, and then
\* every edge's endpoints are handles of nodes of that graph
C9_AllOrNothing ==
    /\ build = "reading" =>
          built = None /\ \A i \in 1..Len(feed) : PassesAt(feed, i)
    /\ build = "err" =>
          /\ built = None
          /\ feed # <<>>
          /\ \A i \in 1..(Len(feed) - 1) : PassesAt(feed, i)
          /\ ~PassesAt(feed, Len(feed))
    /\ build = "ok" =>
          /\ built.some
          /\ \A i \in 1..Len(feed) : PassesAt(feed, i)
          /\ Len(built.val.nodes) =
                Cardinality({ i \in 1..Len(feed) : feed[i].type = Some("node") })
          /\ Len(built.val.edges) =
                Cardinality({ i \in 1..Len(feed) : feed[i].type = Some("edge") })
          /\ \A i \in 1..Len(built.val.edges) :
                /\ built.val.edges[i].u \in 0..(Len(built.val.nodes) - 1)
                /\ built.val.edges[i].v \in 0..(Len(built.val.nodes) - 1)

\* the build has failed on an edge naming an unseen node, after records that
\* had already added nodes, and returned no graph
C9_Witness ==
    /\ build = "err" /\ built = None
    /\ Len(feed) >= 2 /\ graph.nodes # <<>>
    /\ LET last == feed[Len(feed)]
       IN  /\ last.type = Some("edge")
           /\ \A f \in RequiredFields("edge") : last[f].some
           /\ last.v.val \notin NodeIdsSeen(feed)

ExactIntegral(len, d0, d1) ==
    IF RLt(RMul(d0, d1), Zero)
    THEN RMul(RDiv(RAdd(RMul(d0, d0), RMul(d1, d1)),
                   RMul(R(2), RAdd(RAbs(d0), RAbs(d1)))), len)
    ELSE RMul(RDiv(RAdd(RAbs(d0), RAbs(d1)), R(2)), len)

\* C11: integral_abs_diff(len, d0, d1) is the exact integral of the absolute
\* value of the linear function from d0 to d1 over [0, len], whatever the
\* signs of d0 and d1, zero endpoints included
C11_ExactIntegral ==
    (call.some /\ call.val.fn = "integral_abs_diff" /\ ret.some) =>
        ret.val = ExactIntegral(call.val.len, call.val.diff_start, call.val.diff_end)

\* integral_abs_diff(10, 2, -2) has returned 10
C11_Witness ==
    /\ call.some /\ call.val.fn = "integral_abs_diff" /\ ret.some
    /\ call.val.len = R(10) /\ call.val.diff_start = R(2) /\ call.val.diff_end = R(-2)
    /\ ret.val = R(10)

\* C12: without offset the score of a profile against itself is 0 and no
\* score is negative
C12_PlainScore ==
    (call.some /\ call.val.fn = "score" /\ ret.some) =>
        /\ ~RLt(ret.val, Zero)
        /\ (call.val.actual = call.val.target => ret.val = Zero)

\* a profile of three points or more, of positive length and with an
\* elevation other than 0, has been scored against itself
C12_Witness ==
    /\ call.some /\ call.val.fn = "score" /\ ret.some
    /\ call.val.actual = call.val.target
    /\ Len(call.val.actual) >= 3
    /\ RLt(Zero, total_length(call.val.target))
    /\ \E i \in 1..Len(call.val.actual) : call.val.actual[i][2] # Zero
    /\ ret.val = Zero

\* the Profile invariant: begins with (0,0), distances strictly ascending
ValidProfile(points) ==
    /\ points # <<>>
    /\ points[1] = <<Zero, Zero>>
    /\ \A i \in 1..(Len(points) - 1) : RLt(points[i][1], points[i + 1][1])

\* the point at distance s on the straight line from breakpoint p to q
OnLine(p, q, s) ==
    RAdd(p[2], RDiv(RMul(RSub(s, p[1]), RSub(q[2], p[2])), RSub(q[1], p[1])))

\* C13: on a valid Profile interpolate(s) is 0 for s <= 0, the last
\* elevation for s >= total_length(), and linear between two consecutive
\* breakpoints
C13_Interpolate ==
    (call.some /\ call.val.fn = "interpolate" /\ ret.some
        /\ ValidProfile(call.val.profile)) =>
        LET pts == call.val.profile
            s == call.val.s
        IN  /\ RLe(s, Zero) => ret.val = Zero
            /\ RLe(pts[Len(pts)][1], s) => ret.val = pts[Len(pts)][2]
            /\ \A i \in 1..(Len(pts) - 1) :
                  (RLt(pts[i][1], s) /\ RLt(s, pts[i + 1][1])) =>
                      ret.val = OnLine(pts[i], pts[i + 1], s)

\* interpolate has returned for a point strictly inside the second segment
\* of a valid Profile whose elevation changes there
C13_Witness ==
    /\ call.some /\ call.val.fn = "interpolate" /\ ret.some
    /\ ValidProfile(call.val.profile)
    /\ Len(call.val.profile) >= 3
    /\ RLt(call.val.profile[2][1], call.val.s) /\ RLt(call.val.s, call.val.profile[3][1])
    /\ call.val.profile[2][2] # call.val.profile[3][2]
    /\ ret.val # call.val.profile[2][2] /\ ret.val # call.val.profile[3][2]

\* C14: every Profile built by Profile::new or by extract_profile begins
\* with (0,0) and has strictly ascending distances
C14_ProfileInvariant ==
    (call.some /\ call.val.fn \in {"Profile::new", "extract_profile"} /\ ret.some) =>
        ValidProfile(ret.val)

\* the handles of the edges that touch node n, as source or as target
IncidentEdges(g, n) ==
    { e \in 0..(Len(g.edges) - 1) : EdgeAt(g, e).u = n \/ EdgeAt(g, e).v = n }

OtherEnd(edge, n) == IF edge.u = n THEN edge.v ELSE edge.u

\* c is the child of p that traverses edge e to node n
IsChildVia(c, p, e, n) ==
    /\ c.path = Append(p.path, <<e, One>>)
    /\ c.first_edge_idx = p.first_edge_idx
    /\ c.first_fraction = p.first_fraction
    /\ c.node = n

\* C15: in every beam iteration every path that is not dropped has, for each
\* edge incident to its node (as source or as target, parallel edges each on
\* their own) whose length fits l + 2*eps, a child that traverses that edge
\* to its other endpoint; the children are read off the next beam when the
\* beam width did not cut it
C15_ChildPerIncidentEdge ==
    \A k \in 1..(Len(beams) - 1) :
        Len(beams[k + 1]) < beam_width =>
            \A i \in 1..Len(beams[k]) :
                LET p == beams[k][i]
                    l == total_length(query.p)
                IN  ~RLt(RAdd(l, Eps(l)), p.length) =>
                        \A e \in IncidentEdges(data.graph, p.node) :
                            RLe(RAdd(p.length, EdgeAt(data.graph, e).length),
                                RAdd(l, RMul(R(2), Eps(l)))) =>
                                \E j \in 1..Len(beams[k + 1]) :
                                    IsChildVia(beams[k + 1][j], p, e,
                                               OtherEnd(EdgeAt(data.graph, e), p.node))

\* ceil(2 * l / 50) for l >= 0
CeilSteps(l) ==
    (RDiv(RMul(R(2), l), R(50))[1] + RDiv(RMul(R(2), l), R(50))[2] - 1)
        \div RDiv(RMul(R(2), l), R(50))[2]

\* C16: the loop of find_route stops after ceil(2*l/50) iterations, or
\* before that on an empty beam
C16_CeilSteps ==
    (pc \in {"select", "done"} /\ beams # <<>> /\ beams[1] # <<>>) =>
        (step = CeilSteps(total_length(query.p)) \/ beam = <<>>)

\* c extends p by one edge
IsChildOf(c, p) ==
    /\ c.path # <<>>
    /\ SubSeq(c.path, 1, Len(c.path) - 1) = p.path
    /\ c.first_edge_idx = p.first_edge_idx
    /\ c.first_fraction = p.first_fraction

\* C17: every child emitted during the search is strictly longer than its
\* parent
C17_StrictGrowth ==
    \A k \in 1..(Len(beams) - 1) :
        \A j \in 1..Len(beams[k + 1]) :
            \A i \in 1..Len(beams[k]) :
                IsChildOf(beams[k + 1][j], beams[k][i]) =>
                    RLt(beams[k][i].length, beams[k + 1][j].length)

\* C18: every call of find_route returns, and its loop never runs more than
\* max_steps iterations, whatever cycles, self-loops and zero-length edges
\* the graph has
C18_Terminates ==
    /\ [](step <= MaxSteps(total_length(query.p)))
    /\ [](pc = "start" => <>(pc = "done"))

\* a call has returned after the loop ran its max_steps iterations on a
\* beam that never emptied, a zero-length edge being traversed over and over
C18_Witness ==
    /\ pc = "done"
    /\ step > 0 /\ step = MaxSteps(total_length(query.p))
    /\ \E i \in 1..Len(beam) :
          /\ Len(beam[i].path) >= 2
          /\ beam[i].path[1][1] = beam[i].path[2][1]
          /\ EdgeAt(data.graph, beam[i].path[1][1]).length = Zero

\* the children emitted by the iteration over beam bm, in emission order
Emitted(bm) == ProcessBeam(bm, 1, None, <<>>, data, query).next_beam

\* cum_area / length * l, or +infinity
EstimateOf(c) ==
    IF RLt(Zero, c.length) /\ c.cum_area[2] # 0
    THEN RMul(RDiv(c.cum_area, c.length), total_length(query.p))
    ELSE INF

\* the beam_width children of ch with the lowest estimates, earlier emission
\* first among equal estimates: the child at position i has as many children
\* before it as there are j with a lower estimate, or the same and j < i
KeptOf(ch, kept) ==
    \E est \in { [i \in 1..Len(ch) |-> EstimateOf(ch[i])] \o <<>> } :
        LET Before(j, i) == RLt(est[j], est[i]) \/ (est[j] = est[i] /\ j < i)
            rank == [i \in 1..Len(ch) |-> Cardinality({ j \in 1..Len(ch) : Before(j, i) })]
        IN  /\ Len(kept) = (IF Len(ch) < 50 THEN Len(ch) ELSE 50)
            /\ \A i \in 1..Len(ch) : rank[i] < 50 => kept[rank[i] + 1] = ch[i]

\* C19: after every iteration the beam holds at most 50 paths, the emitted
\* children with the lowest estimates, ties in emission order
C19_BeamKeepsLowest ==
    \A k \in 1..(Len(beams) - 1) :
        \E ch \in { Emitted(beams[k]) } : KeptOf(ch, beams[k + 1])

\* an iteration emitted more than 50 children, and a child that was dropped
\* has the same estimate as one that was kept
C19_Witness ==
    \E k \in 1..(Len(beams) - 1) :
        \E ch \in { Emitted(beams[k]) } :
            /\ Len(ch) > 50
            /\ Len(beams[k + 1]) = 50
            /\ \E j \in 1..Len(ch) :
                  /\ \A i \in 1..50 : beams[k + 1][i] # ch[j]
                  /\ EstimateOf(ch[j]) = EstimateOf(beams[k + 1][50])

\* the paths examined with a length within eps of l, as <<k, i>> for the
\* i-th path of the k-th beam: every beam is examined once, in the loop or
\* in the final pass
Completions ==
    { ki \in UNION { { <<k, i>> : i \in 1..Len(beams[k]) } : k \in 1..Len(beams) } :
        RLe(RAbs(RSub(beams[ki[1]][ki[2]].length, total_length(query.p))),
            Eps(total_length(query.p))) }

Earlier(a, b) == a[1] < b[1] \/ (a[1] = b[1] /\ a[2] < b[2])

\* C20: the Route returned is that of the examined completion with the
\* lowest offset-calibrated score, the earliest one among equal scores, and
\* absent is returned only when no completion was examined
C20_BestCompletion ==
    pc = "done" =>
        LET sc == [ki \in Completions |->
                      score(TRUE, extract_profile(beams[ki[1]][ki[2]], data), query.p)]
        IN  IF Completions = {} THEN result = None
            ELSE \E w \in Completions :
                    /\ \A o \in Completions :
                          /\ RLe(sc[w], sc[o])
                          /\ Earlier(o, w) => RLt(sc[w], sc[o])
                    /\ best = Some(<<sc[w], beams[w[1]][w[2]]>>)
                    /\ result.some
                    /\ LET hs == Handles(beams[w[1]][w[2]])
                       IN  result.val.edge_ids =
                               [i \in 1..Len(hs) |-> EdgeAt(data.graph, hs[i]).id]

\* a Route has been returned for a completion that does not have the lowest
\* cum_area of the completions examined
C20_Witness ==
    /\ pc = "done" /\ result.some /\ best.some
    /\ \E o \in Completions : RLt(beams[o[1]][o[2]].cum_area, best.val[2].cum_area)

\* (p_u + f * (p_v - p_u) - c) . (p_v - p_u): the slope at f of the squared
\* distance from c to the point of the segment at fraction f, halved
SlopeAt(c, se, f) ==
    RAdd(RMul(RSub(RAdd(se.p_u[1], RMul(f, RSub(se.p_v[1], se.p_u[1]))), c[1]),
              RSub(se.p_v[1], se.p_u[1])),
         RMul(RSub(RAdd(se.p_u[2], RMul(f, RSub(se.p_v[2], se.p_u[2]))), c[2]),
              RSub(se.p_v[2], se.p_u[2])))

\* f is the fraction along se of the point of se nearest to c: inside the
\* segment the slope vanishes, at an end it does not point into the segment;
\* on a segment reduced to a point every fraction gives the nearest point
IsProjectionFraction(f, c, se) ==
    /\ RLe(Zero, f) /\ RLe(f, One)
    /\ IF se.p_u = se.p_v THEN TRUE
       ELSE \E sl \in { SlopeAt(c, se, f) } :
               /\ RLt(Zero, f) => RLe(sl, Zero)
               /\ RLt(f, One) => RLe(Zero, sl)

\* the entries of the index for the edge with handle h
EntriesOf(h) == { i \in 1..Len(data.rtree) : data.rtree[i].e_idx = h }

=============================================================================
